---- MODULE Spec2Model ----
(***************************************************************************)
(* State-aggregation engine of the Paradex realtime dashboard              *)
(* (src/src/hooks/useWebSocket.ts) and the exit-order lookup of            *)
(* src/src/components/PositionsTable.tsx.                                  *)
(*                                                                         *)
(* Conventions of the translation                                          *)
(*  - a decimal string of the wire format is <<n>> (n an integer number of *)
(*    smallest units); undefined, '' and any unparseable string are <<>>;  *)
(*  - a value of type `number | null` is <<>> (null) or <<n>>;             *)
(*  - a JS Map is a function whose DOMAIN is the set of keys present;      *)
(*  - the MarketStats objects are heap objects, one per market, created    *)
(*    once and then mutated in place: marketStatsRef is that heap, and a   *)
(*    Map copied with `new Map(marketStatsRef.current)` is the set of its  *)
(*    keys, each key still denoting the same heap object.                  *)
(***************************************************************************)
EXTENDS Integers, Sequences, FiniteSets, TLC

\* ------------------------------------------------------------------ bounds
\* number of messages delivered to the handlers in one behaviour
MaxEvents == 3
\* MAX_HISTORY_POINTS of useWebSocket.ts:9 (1000 there), scaled down so that
\* the drop-oldest trimming happens within MaxEvents
MAX_HISTORY_POINTS == 2
\* the 100 of `.slice(0, 100)` (useWebSocket.ts:233), scaled down likewise
MaxRecentFills == 2

\* ------------------------------------------------------------ wire values
Undefined == <<>>
Null == <<>>
EmptyMap == [k \in {} |-> 0]

Markets == {"m1", "m2"}
OpenStatuses == {"NEW", "OPEN"}
TerminalStatuses == {"CLOSED", "CANCELED", "REJECTED"}
OrderStatuses == OpenStatuses \cup TerminalStatuses

\* parseFloat(s) for a string that parses
ParseFloat(s) == s[1]
\* parseFloat(s) || 0 : NaN and 0 both give 0
ParseFloatOr0(s) == IF s = Undefined THEN 0 ELSE s[1]

\* ------------------------------------------------------------- JS Map ops
MapHas(map, k) == k \in DOMAIN map
MapSet(map, k, v) == [x \in (DOMAIN map) \cup {k} |-> IF x = k THEN v ELSE map[x]]
MapDelete(map, k) == [x \in (DOMAIN map) \ {k} |-> map[x]]
\* new Map([...a, ...b]) : entries of b override those of a
MapMerge(a, b) == [x \in (DOMAIN a) \cup (DOMAIN b) |-> IF x \in DOMAIN b THEN b[x] ELSE a[x]]

RECURSIVE SumOver(_, _)
SumOver(S, f) == IF S = {} THEN 0 ELSE LET x == CHOOSE y \in S : TRUE IN f[x] + SumOver(S \ {x}, f)

\* ------------------------------------------------------------------ inputs
\* Fills of the venue: positive price and size, non-negative fee, signed
\* realized P&L (an unparseable realized_pnl falls back to 0).
FillInputs == { [id |-> "f1", market |-> "m1", price |-> <<3>>, size |-> <<2>>, realized_pnl |-> <<-1>>, fee |-> <<1>>], [id |-> "f2", market |-> "m2", price |-> <<5>>, size |-> <<1>>, realized_pnl |-> Undefined, fee |-> <<2>>] }

\* An order id names one order: market, side and created_at are fixed, the
\* status is what the updates change.
OrderIds == {"o1", "o2", "o3"}
OrderMarket(id) == IF id = "o3" THEN "m2" ELSE "m1"
OrderSide(id) == IF id = "o1" THEN "SELL" ELSE "BUY"
OrderCreatedAt(id) == CASE id = "o1" -> 3 [] id = "o2" -> 1 [] OTHER -> 2
\* o1 is seen in every status, o2 opened and cancelled, o3 opened
OrderStatusesOf(id) == CASE id = "o1" -> OrderStatuses [] id = "o2" -> {"OPEN", "CANCELED"} [] OTHER -> {"OPEN"}
OrderUpdate(i, s) == [id |-> i, market |-> OrderMarket(i), side |-> OrderSide(i), status |-> s, created_at |-> OrderCreatedAt(i)]
OrderInputs == UNION { { OrderUpdate(i, s) : s \in OrderStatusesOf(i) } : i \in OrderIds }

PositionShapes == { [side |-> "LONG", status |-> "OPEN", size |-> <<1>>, unrealized_pnl |-> <<5>>], [side |-> "SHORT", status |-> "OPEN", size |-> <<2>>, unrealized_pnl |-> <<-2>>], [side |-> "LONG", status |-> "OPEN", size |-> <<0>>, unrealized_pnl |-> <<0>>], [side |-> "LONG", status |-> "CLOSED", size |-> <<1>>, unrealized_pnl |-> <<5>>] }
\* m1 is seen in every shape, m2 as an open LONG position
PositionShapesOf(m) == IF m = "m1" THEN PositionShapes ELSE { p \in PositionShapes : p.side = "LONG" /\ p.status = "OPEN" /\ p.size # <<0>> }
PositionInputs == UNION { { [market |-> m, side |-> p.side, status |-> p.status, size |-> p.size, unrealized_pnl |-> p.unrealized_pnl] : p \in PositionShapesOf(m) } : m \in Markets }

AccountInputs == { [equity |-> <<10>>, account_value |-> Undefined, unrealized_pnl |-> <<4>>], [equity |-> Undefined, account_value |-> <<7>>, unrealized_pnl |-> Undefined], [equity |-> <<0>>, account_value |-> Undefined, unrealized_pnl |-> Undefined], [equity |-> Undefined, account_value |-> Undefined, unrealized_pnl |-> <<0>>] }

\* ------------------------------------------------------------------- state
\* The engine: the refs of the hook, the React state and its pending updaters,
\* the number of armed flush timers and the clock read by Date.now().
VARIABLES positionsRef, openOrdersRef, allOpenOrdersRef, lastOrderTimeRef, lastFillTimeRef, marketStatsRef, pendingUpdatesRef, updateScheduledRef, timers, state, stateRef, updateQueue, now

\* The session: the jwtToken prop, the WebSocket objects the hook has created
\* (wsRef is an index into sockets, 0 for null), the socket whose cleanup the
\* connect effect has registered (0 for none), the isConnected flag and the
\* bootstrap fetches started (each with the markets for which a live delta of
\* its kind was delivered while it was in flight), and the last frame
\* delivered to ws.onmessage.
VARIABLES jwtToken, jwtTokenRef, wsRef, sockets, cleanupSocket, isConnected, fetches, tokenChanges, lastFrame

\* History variables: what has been delivered to the handlers so far. They are
\* written from the inputs alone and never read by the program's operators.
VARIABLES applied, gUnreal, seenOpen, terminated, lastEvent, lastUnrealEvt, batchEvents, lastFlush, published

sessionVars == <<jwtToken, jwtTokenRef, wsRef, sockets, cleanupSocket, isConnected, fetches, tokenChanges, lastFrame>>
historyVars == <<applied, gUnreal, seenOpen, terminated, lastEvent, lastUnrealEvt, batchEvents, lastFlush, published>>

engineVars == <<positionsRef, openOrdersRef, allOpenOrdersRef, lastOrderTimeRef, lastFillTimeRef, marketStatsRef, pendingUpdatesRef, updateScheduledRef, timers, state, stateRef, updateQueue, now>>

createEmptyPendingUpdates == [fills |-> <<>>, pnlPoints |-> <<>>, volumePoints |-> <<>>, equityPoints |-> <<>>, orderPoints |-> <<>>, realizedPnLDelta |-> 0, feesDelta |-> 0, volumeDelta |-> 0, newOrdersCount |-> 0, equity |-> Null, unrealizedPnL |-> Null, positionsChanged |-> FALSE, ordersChanged |-> FALSE, allOrdersChanged |-> FALSE, lastOrderTimes |-> EmptyMap, lastFillTimes |-> EmptyMap, marketStatsChanged |-> FALSE]

InitialState == [realizedPnL |-> 0, unrealizedPnL |-> 0, totalFees |-> 0, totalVolume |-> 0, ordersCreated |-> 0, equity |-> 0, pnlHistory |-> <<>>, volumeHistory |-> <<>>, ordersHistory |-> <<>>, equityHistory |-> <<>>, recentFills |-> <<>>, positions |-> EmptyMap, openOrders |-> EmptyMap, allOpenOrders |-> EmptyMap, lastOrderTimeByMarket |-> EmptyMap, lastFillTimeByMarket |-> EmptyMap, marketStats |-> {}]

NewMarketStats(m) == [market |-> m, realizedPnL |-> 0, unrealizedPnL |-> 0, fees |-> 0, volume |-> 0, orderCount |-> 0, fillCount |-> 0]

\* marketStatsRef.current.get(m) || { market: m, realizedPnL: 0, ... }
StatsOrNew(m) == IF MapHas(marketStatsRef, m) THEN marketStatsRef[m] ELSE NewMarketStats(m)

EngineRefsInit ==
    /\ positionsRef = EmptyMap
    /\ openOrdersRef = EmptyMap
    /\ allOpenOrdersRef = EmptyMap
    /\ lastOrderTimeRef = EmptyMap
    /\ lastFillTimeRef = EmptyMap
    /\ marketStatsRef = EmptyMap
    /\ pendingUpdatesRef = createEmptyPendingUpdates
    /\ updateScheduledRef = FALSE
    /\ timers = 0
    /\ state = InitialState
    /\ stateRef = InitialState
    /\ updateQueue = <<>>

EngineInit == EngineRefsInit /\ now = 1

NoToken == "none"
Tokens == {"t1", "t2"}
\* number of changes of the jwtToken prop in one behaviour
MaxTokenChanges == 3

NoFrame == [n |-> 0, kind |-> "none", prev |-> "none", sock |-> 0]

SessionRefsInit ==
    /\ jwtToken = NoToken
    /\ jwtTokenRef = NoToken
    /\ wsRef = 0
    /\ sockets = <<>>
    /\ cleanupSocket = 0
    /\ isConnected = FALSE
    /\ fetches = <<>>
    /\ lastFrame = NoFrame

SessionInit == SessionRefsInit /\ tokenChanges = 0

NoEvent == [seq |-> 0, kind |-> "none", market |-> "", id |-> "", status |-> ""]
\* equity: the latest positive equity delivered; positions: the markets whose
\* latest position snapshot delivered is an open one; account: an account
\* snapshot carrying unrealized_pnl has been delivered
NothingApplied == [realized |-> 0, fees |-> 0, volume |-> 0, orders |-> 0, unreal |-> 0, fills |-> 0, events |-> 0, equity |-> 0, positions |-> {}, account |-> FALSE]

HistoryInit ==
    /\ applied = NothingApplied
    /\ gUnreal = [m \in Markets |-> 0]
    /\ seenOpen = [m \in Markets |-> {}]
    /\ terminated = {}
    /\ lastEvent = NoEvent
    /\ lastUnrealEvt = NoEvent
    /\ batchEvents = 0
    /\ lastFlush = [events |-> 0, setStates |-> 0]
    /\ published = [applied |-> NothingApplied, evt |-> NoEvent]

Init == EngineInit /\ SessionInit /\ HistoryInit

vars == <<engineVars, sessionVars, historyVars>>

\* variant: every mutation arms a timer
scheduleUpdate_Always == updateScheduledRef' = TRUE /\ timers' = timers + 1

\* scheduleUpdate: arm one timer unless one is already scheduled
scheduleUpdate ==
    IF ~updateScheduledRef
    THEN updateScheduledRef' = TRUE /\ timers' = timers + 1
    ELSE UNCHANGED <<updateScheduledRef, timers>>

\* The total P&L the handlers compute for the chart, from stateRef and the
\* pending batch as it is after the handler's own additions
ChartTotalPnL(pend, unrealized) == (stateRef.realizedPnL + pend.realizedPnLDelta) - (stateRef.totalFees + pend.feesDelta) + unrealized

fillStats(fill) == LET stats == StatsOrNew(fill.market) IN [stats EXCEPT !.realizedPnL = @ + ParseFloatOr0(fill.realized_pnl), !.fees = @ + ParseFloatOr0(fill.fee), !.volume = @ + ParseFloat(fill.price) * ParseFloat(fill.size), !.fillCount = @ + 1]

fillPending(fill) ==
    LET pending == pendingUpdatesRef
        fillVolume == ParseFloat(fill.price) * ParseFloat(fill.size)
        p1 == [pending EXCEPT !.fills = Append(@, fill), !.realizedPnLDelta = @ + ParseFloatOr0(fill.realized_pnl), !.feesDelta = @ + ParseFloatOr0(fill.fee), !.volumeDelta = @ + fillVolume, !.volumePoints = Append(@, [time |-> now, value |-> fillVolume, market |-> fill.market]), !.marketStatsChanged = TRUE, !.lastFillTimes = MapSet(@, fill.market, now)]
        unrealizedPnL == IF p1.unrealizedPnL # Null THEN p1.unrealizedPnL[1] ELSE stateRef.unrealizedPnL
    IN [p1 EXCEPT !.pnlPoints = Append(@, [time |-> now, value |-> ChartTotalPnL(p1, unrealizedPnL)])]

handleFill(fill) ==
    /\ pendingUpdatesRef' = fillPending(fill)
    /\ marketStatsRef' = MapSet(marketStatsRef, fill.market, fillStats(fill))
    /\ lastFillTimeRef' = MapSet(lastFillTimeRef, fill.market, now)
    /\ scheduleUpdate
    /\ UNCHANGED <<positionsRef, openOrdersRef, allOpenOrdersRef, lastOrderTimeRef>>

\* ------------------------------------------------------------ handleOrder
orderStats(order) == LET stats == StatsOrNew(order.market) IN [stats EXCEPT !.orderCount = @ + 1]

\* allOpenOrdersRef after `get(market)!.set(order.id, order)`, the inner Map
\* created first when the market has none
allOpenAfterSet(order) == LET inner == IF MapHas(allOpenOrdersRef, order.market) THEN allOpenOrdersRef[order.market] ELSE EmptyMap IN MapSet(allOpenOrdersRef, order.market, MapSet(inner, order.id, order))

\* variant: the terminal update leaves the open-order set as it is
allOpenAfterDelete_Kept(order) == allOpenOrdersRef

\* allOpenOrdersRef after `marketOrders.delete(order.id)` and the removal of a
\* market whose inner Map became empty
allOpenAfterDelete(order) == LET inner == MapDelete(allOpenOrdersRef[order.market], order.id) IN IF DOMAIN inner = {} THEN MapDelete(allOpenOrdersRef, order.market) ELSE MapSet(allOpenOrdersRef, order.market, inner)

\* variant: the terminal update never clears the pointer
isPointer_Never(order) == FALSE

\* existingOrder?.id === order.id
isPointer(order) == MapHas(openOrdersRef, order.market) /\ openOrdersRef[order.market].id = order.id

orderTimeOf(order) == order.created_at

handleOrderOpen(order) ==
    /\ openOrdersRef' = MapSet(openOrdersRef, order.market, order)
    /\ allOpenOrdersRef' = allOpenAfterSet(order)
    /\ marketStatsRef' = MapSet(marketStatsRef, order.market, orderStats(order))
    /\ pendingUpdatesRef' = [pendingUpdatesRef EXCEPT !.lastOrderTimes = MapSet(@, order.market, orderTimeOf(order)), !.ordersChanged = TRUE, !.newOrdersCount = @ + 1, !.orderPoints = Append(@, [time |-> order.created_at, value |-> 0]), !.allOrdersChanged = TRUE, !.marketStatsChanged = TRUE]

handleOrderTerminal(order) ==
    /\ openOrdersRef' = IF isPointer(order) THEN MapDelete(openOrdersRef, order.market) ELSE openOrdersRef
    /\ allOpenOrdersRef' = IF MapHas(allOpenOrdersRef, order.market) THEN allOpenAfterDelete(order) ELSE allOpenOrdersRef
    /\ marketStatsRef' = marketStatsRef
    /\ pendingUpdatesRef' = [pendingUpdatesRef EXCEPT !.lastOrderTimes = MapSet(@, order.market, orderTimeOf(order)), !.ordersChanged = @ \/ isPointer(order), !.allOrdersChanged = @ \/ MapHas(allOpenOrdersRef, order.market)]

handleOrder(order) ==
    /\ lastOrderTimeRef' = MapSet(lastOrderTimeRef, order.market, orderTimeOf(order))
    /\ IF order.status \in OpenStatuses
       THEN handleOrderOpen(order) /\ scheduleUpdate
       ELSE IF order.status \in TerminalStatuses
            THEN handleOrderTerminal(order) /\ scheduleUpdate
            ELSE /\ pendingUpdatesRef' = [pendingUpdatesRef EXCEPT !.lastOrderTimes = MapSet(@, order.market, orderTimeOf(order))]
                 /\ UNCHANGED <<openOrdersRef, allOpenOrdersRef, marketStatsRef, updateScheduledRef, timers>>
    /\ UNCHANGED <<positionsRef, lastFillTimeRef>>

\* --------------------------------------------------------- handlePosition
\* variant: only status CLOSED closes, a size of zero does not
isClosing_StatusOnly(wsPosition) == wsPosition.status = "CLOSED"

isClosing(wsPosition) == wsPosition.status = "CLOSED" \/ ParseFloat(wsPosition.size) = 0

positionsAfter(wsPosition) == IF isClosing(wsPosition) THEN MapDelete(positionsRef, wsPosition.market) ELSE MapSet(positionsRef, wsPosition.market, wsPosition)

positionStats(wsPosition) ==
    IF isClosing(wsPosition)
    THEN IF MapHas(marketStatsRef, wsPosition.market) THEN [marketStatsRef EXCEPT ![wsPosition.market].unrealizedPnL = 0] ELSE marketStatsRef
    ELSE MapSet(marketStatsRef, wsPosition.market, [StatsOrNew(wsPosition.market) EXCEPT !.unrealizedPnL = ParseFloatOr0(wsPosition.unrealized_pnl)])

\* the forEach sum over the position store
totalUnrealizedOf(positions) == SumOver(DOMAIN positions, [m \in DOMAIN positions |-> ParseFloatOr0(positions[m].unrealized_pnl)])

positionPending(wsPosition) ==
    LET pending == pendingUpdatesRef
        totalUnrealized == totalUnrealizedOf(positionsAfter(wsPosition))
        p1 == [pending EXCEPT !.marketStatsChanged = @ \/ ~isClosing(wsPosition) \/ MapHas(marketStatsRef, wsPosition.market), !.unrealizedPnL = <<totalUnrealized>>, !.positionsChanged = TRUE]
    IN [p1 EXCEPT !.pnlPoints = Append(@, [time |-> now, value |-> ChartTotalPnL(p1, totalUnrealized)])]

handlePosition(wsPosition) ==
    /\ positionsRef' = positionsAfter(wsPosition)
    /\ marketStatsRef' = positionStats(wsPosition)
    /\ pendingUpdatesRef' = positionPending(wsPosition)
    /\ scheduleUpdate
    /\ UNCHANGED <<openOrdersRef, allOpenOrdersRef, lastOrderTimeRef, lastFillTimeRef>>

\* ---------------------------------------------------------- handleAccount
\* parseFloat(equity ?? '') || parseFloat(account_value ?? '') || 0
accountEquity(account) == IF ParseFloatOr0(account.equity) # 0 THEN ParseFloatOr0(account.equity) ELSE ParseFloatOr0(account.account_value)

\* newUnrealizedPnL !== 0 || account.unrealized_pnl !== undefined
accountHasUnrealized(account) == ParseFloatOr0(account.unrealized_pnl) # 0 \/ account.unrealized_pnl # Undefined

accountPending(account) ==
    LET pending == pendingUpdatesRef
        newEquity == accountEquity(account)
        newUnrealizedPnL == ParseFloatOr0(account.unrealized_pnl)
        p1 == IF newEquity > 0 THEN [pending EXCEPT !.equity = <<newEquity>>, !.equityPoints = Append(@, [time |-> now, value |-> newEquity])] ELSE pending
    IN IF accountHasUnrealized(account)
       THEN [p1 EXCEPT !.unrealizedPnL = <<newUnrealizedPnL>>, !.pnlPoints = Append(@, [time |-> now, value |-> ChartTotalPnL(p1, newUnrealizedPnL)])]
       ELSE p1

handleAccount(account) ==
    /\ pendingUpdatesRef' = accountPending(account)
    /\ scheduleUpdate
    /\ UNCHANGED <<positionsRef, openOrdersRef, allOpenOrdersRef, lastOrderTimeRef, lastFillTimeRef, marketStatsRef>>

\* ----------------------------------------------------------- flushUpdates
\* variant: the test looks at the arrays and deltas only, not at the flags,
\* the scalar overrides or the time maps
pendingIsEmpty_ArraysOnly(pending) ==
    /\ pending.fills = <<>> /\ pending.pnlPoints = <<>> /\ pending.volumePoints = <<>>
    /\ pending.equityPoints = <<>> /\ pending.orderPoints = <<>>
    /\ pending.realizedPnLDelta = 0 /\ pending.feesDelta = 0 /\ pending.volumeDelta = 0

\* the `Skip if nothing to update` test
pendingIsEmpty(pending) ==
    /\ pending.fills = <<>> /\ pending.pnlPoints = <<>> /\ pending.volumePoints = <<>>
    /\ pending.equityPoints = <<>> /\ pending.orderPoints = <<>>
    /\ pending.realizedPnLDelta = 0 /\ pending.feesDelta = 0 /\ pending.volumeDelta = 0
    /\ pending.newOrdersCount = 0 /\ pending.equity = Null /\ pending.unrealizedPnL = Null
    /\ ~pending.positionsChanged /\ ~pending.ordersChanged /\ ~pending.allOrdersChanged
    /\ DOMAIN pending.lastOrderTimes = {} /\ DOMAIN pending.lastFillTimes = {}
    /\ ~pending.marketStatsChanged

limitArray(arr, newItems, max) == IF newItems = <<>> THEN arr ELSE LET combined == arr \o newItems IN IF Len(combined) > max THEN SubSeq(combined, Len(combined) - max + 1, Len(combined)) ELSE combined

Reverse(seq) == [i \in 1..Len(seq) |-> seq[Len(seq) + 1 - i]]
SliceFront(seq, n) == IF Len(seq) > n THEN SubSeq(seq, 1, n) ELSE seq

\* Array.prototype.sort((a, b) => a.time - b.time): a stable sort by time
RECURSIVE InsertByTime(_, _)
InsertByTime(sorted, p) == IF sorted = <<>> THEN <<p>> ELSE IF p.time < Head(sorted).time THEN <<p>> \o sorted ELSE <<Head(sorted)>> \o InsertByTime(Tail(sorted), p)
RECURSIVE SortByTime(_)
SortByTime(seq) == IF seq = <<>> THEN <<>> ELSE InsertByTime(SortByTime(SubSeq(seq, 1, Len(seq) - 1)), seq[Len(seq)])
\* .map((point, index) => ({ time: point.time, value: index + 1 }))
RankPoints(seq) == [i \in 1..Len(seq) |-> [time |-> seq[i].time, value |-> i]]

\* variant: the new points are appended and trimmed, neither sorted nor ranked
newOrdersHistory_Appended(prev, pending) == limitArray(prev.ordersHistory, pending.orderPoints, MAX_HISTORY_POINTS)
newOrdersHistory(prev, pending) == IF pending.orderPoints # <<>> THEN RankPoints(SortByTime(limitArray(prev.ordersHistory, pending.orderPoints, MAX_HISTORY_POINTS))) ELSE prev.ordersHistory

\* variant: the batch's fills go to the back of the list, in arrival order
newRecentFills_Appended(prev, pending) == SliceFront(prev.recentFills \o pending.fills, MaxRecentFills)
newRecentFills(prev, pending) == IF pending.fills # <<>> THEN SliceFront(Reverse(pending.fills) \o prev.recentFills, MaxRecentFills) ELSE prev.recentFills

\* the positions array built from positionsRef (one fresh object per market)
publishedPositions(positions) == [m \in DOMAIN positions |-> [id |-> m, market |-> m, side |-> positions[m].side, status |-> "OPEN", size |-> positions[m].size, unrealized_pnl |-> positions[m].unrealized_pnl]]

\* market -> Array.from(ordersMap.values())
publishedAllOpenOrders(allOpen) == [m \in DOMAIN allOpen |-> {allOpen[m][i] : i \in DOMAIN allOpen[m]}]

newRealizedPnL(prev, pending) == prev.realizedPnL + pending.realizedPnLDelta
newTotalFees(prev, pending) == prev.totalFees + pending.feesDelta
\* variant: the batch's volume replaces the total
newTotalVolume_Replaced(prev, pending) == pending.volumeDelta
newTotalVolume(prev, pending) == prev.totalVolume + pending.volumeDelta
newOrdersCount(prev, pending) == prev.ordersCreated + pending.newOrdersCount
\* variant: a batch without an equity value publishes equity 0
newEquity_Reset(prev, pending) == IF pending.equity # Null THEN pending.equity[1] ELSE 0
newEquity(prev, pending) == IF pending.equity # Null THEN pending.equity[1] ELSE prev.equity
\* variant: unrealized P&L accumulates like a counter
newUnrealizedPnL_Accumulated(prev, pending) == prev.unrealizedPnL + (IF pending.unrealizedPnL # Null THEN pending.unrealizedPnL[1] ELSE 0)
newUnrealizedPnL(prev, pending) == IF pending.unrealizedPnL # Null THEN pending.unrealizedPnL[1] ELSE prev.unrealizedPnL
newPositions(prev, pending) == IF pending.positionsChanged THEN publishedPositions(positionsRef) ELSE prev.positions
newMarketStats(prev, pending) == IF pending.marketStatsChanged THEN DOMAIN marketStatsRef ELSE prev.marketStats

\* The updater handed to setState: `pending` is the batch captured when the
\* timer fired, the refs are read when React runs the updater.
flushUpdater(prev, pending) ==
    [realizedPnL |-> newRealizedPnL(prev, pending),
     totalFees |-> newTotalFees(prev, pending),
     totalVolume |-> newTotalVolume(prev, pending),
     ordersCreated |-> newOrdersCount(prev, pending),
     equity |-> newEquity(prev, pending),
     unrealizedPnL |-> newUnrealizedPnL(prev, pending),
     recentFills |-> newRecentFills(prev, pending),
     pnlHistory |-> limitArray(prev.pnlHistory, pending.pnlPoints, MAX_HISTORY_POINTS),
     volumeHistory |-> limitArray(prev.volumeHistory, pending.volumePoints, MAX_HISTORY_POINTS),
     equityHistory |-> limitArray(prev.equityHistory, pending.equityPoints, MAX_HISTORY_POINTS),
     ordersHistory |-> newOrdersHistory(prev, pending),
     positions |-> newPositions(prev, pending),
     openOrders |-> IF pending.ordersChanged THEN openOrdersRef ELSE prev.openOrders,
     allOpenOrders |-> IF pending.allOrdersChanged THEN publishedAllOpenOrders(allOpenOrdersRef) ELSE prev.allOpenOrders,
     lastOrderTimeByMarket |-> IF DOMAIN pending.lastOrderTimes # {} THEN MapMerge(prev.lastOrderTimeByMarket, lastOrderTimeRef) ELSE prev.lastOrderTimeByMarket,
     lastFillTimeByMarket |-> IF DOMAIN pending.lastFillTimes # {} THEN MapMerge(prev.lastFillTimeByMarket, lastFillTimeRef) ELSE prev.lastFillTimeByMarket,
     marketStats |-> newMarketStats(prev, pending)]

\* variant: the flush leaves the scheduled flag set
scheduledAfterFlush_Stuck == updateScheduledRef
\* updateScheduledRef.current = false, the first statement of flushUpdates
scheduledAfterFlush == FALSE

\* whether flushUpdates calls setState for this batch
flushPublishes(pending) == ~pendingIsEmpty(pending)

\* ------------------------------------------------------- history (observers)
ObserveFill(fill) ==
    /\ applied' = [applied EXCEPT !.realized = @ + (IF fill.realized_pnl = Undefined THEN 0 ELSE fill.realized_pnl[1]), !.fees = @ + (IF fill.fee = Undefined THEN 0 ELSE fill.fee[1]), !.volume = @ + fill.price[1] * fill.size[1], !.fills = @ + 1, !.events = @ + 1]
    /\ lastEvent' = [seq |-> now, kind |-> "fill", market |-> fill.market, id |-> fill.id, status |-> ""]
    /\ batchEvents' = batchEvents + 1
    /\ UNCHANGED <<gUnreal, seenOpen, terminated, lastUnrealEvt, lastFlush, published>>

ObserveOrder(order) ==
    /\ applied' = [applied EXCEPT !.orders = @ + (IF order.status \in {"NEW", "OPEN"} THEN 1 ELSE 0), !.events = @ + 1]
    /\ seenOpen' = IF order.status \in {"NEW", "OPEN"} THEN [seenOpen EXCEPT ![order.market] = @ \cup {order.id}] ELSE seenOpen
    /\ terminated' = IF order.status \in TerminalStatuses THEN terminated \cup {order.id} ELSE terminated
    /\ lastEvent' = [seq |-> now, kind |-> "order", market |-> order.market, id |-> order.id, status |-> order.status]
    /\ batchEvents' = batchEvents + 1
    /\ UNCHANGED <<gUnreal, lastUnrealEvt, lastFlush, published>>

ObservePosition(p) ==
    LET closes == p.status = "CLOSED" \/ p.size = <<0>>
        g == [gUnreal EXCEPT ![p.market] = IF closes \/ p.unrealized_pnl = Undefined THEN 0 ELSE p.unrealized_pnl[1]]
        evt == [seq |-> now, kind |-> "position", market |-> p.market, id |-> "", status |-> IF closes THEN "close" ELSE "open"]
    IN /\ gUnreal' = g
       /\ applied' = [applied EXCEPT !.unreal = SumOver(Markets, g), !.events = @ + 1, !.positions = IF closes THEN @ \ {p.market} ELSE @ \cup {p.market}]
       /\ lastEvent' = evt
       /\ lastUnrealEvt' = evt
       /\ batchEvents' = batchEvents + 1
       /\ UNCHANGED <<seenOpen, terminated, lastFlush, published>>

ObserveAccount(a) ==
    LET hasUnreal == a.unrealized_pnl # Undefined
        hasEquity == \/ (a.equity # Undefined /\ a.equity[1] > 0)
                     \/ (a.equity \in {Undefined, <<0>>} /\ a.account_value # Undefined /\ a.account_value[1] > 0)
        mutating == hasUnreal \/ hasEquity
        equity == IF a.equity # Undefined /\ a.equity[1] > 0 THEN a.equity[1] ELSE a.account_value[1]
        evt == [seq |-> now, kind |-> "account", market |-> "", id |-> "", status |-> IF hasUnreal THEN "unrealized" ELSE ""]
    IN /\ applied' = [applied EXCEPT !.unreal = IF hasUnreal THEN a.unrealized_pnl[1] ELSE @, !.events = @ + (IF mutating THEN 1 ELSE 0), !.equity = IF hasEquity THEN equity ELSE @, !.account = @ \/ hasUnreal]
       /\ lastEvent' = evt
       /\ lastUnrealEvt' = IF hasUnreal THEN evt ELSE lastUnrealEvt
       /\ batchEvents' = batchEvents + (IF mutating THEN 1 ELSE 0)
       /\ UNCHANGED <<gUnreal, seenOpen, terminated, lastFlush, published>>

\* ------------------------------------------------------------------ actions
\* ws.onmessage -> processSubscriptionData -> handler, one message at a time
HandleFill ==
    \E fill \in FillInputs :
        /\ now <= MaxEvents
        /\ handleFill(fill)
        /\ now' = now + 1
        /\ ObserveFill(fill)
        /\ UNCHANGED <<state, stateRef, updateQueue, sessionVars>>

HandleOrder ==
    \E order \in OrderInputs :
        /\ now <= MaxEvents
        /\ handleOrder(order)
        /\ now' = now + 1
        /\ ObserveOrder(order)
        /\ UNCHANGED <<state, stateRef, updateQueue, sessionVars>>

HandlePosition ==
    \E wsPosition \in PositionInputs :
        /\ now <= MaxEvents
        /\ handlePosition(wsPosition)
        /\ now' = now + 1
        /\ ObservePosition(wsPosition)
        /\ UNCHANGED <<state, stateRef, updateQueue, sessionVars>>

HandleAccount ==
    \E account \in AccountInputs :
        /\ now <= MaxEvents
        /\ handleAccount(account)
        /\ now' = now + 1
        /\ ObserveAccount(account)
        /\ UNCHANGED <<state, stateRef, updateQueue, sessionVars>>

\* The flush timer fires: flushUpdates. setState only enqueues the updater.
FlushUpdates ==
    /\ timers > 0
    /\ timers' = timers - 1
    /\ updateScheduledRef' = scheduledAfterFlush
    /\ IF flushPublishes(pendingUpdatesRef)
       THEN /\ updateQueue' = Append(updateQueue, [kind |-> "flush", pending |-> pendingUpdatesRef, applied |-> applied, evt |-> lastUnrealEvt])
            /\ pendingUpdatesRef' = createEmptyPendingUpdates
       ELSE UNCHANGED <<updateQueue, pendingUpdatesRef>>
    /\ lastFlush' = [events |-> batchEvents, setStates |-> IF flushPublishes(pendingUpdatesRef) THEN 1 ELSE 0]
    /\ batchEvents' = 0
    /\ UNCHANGED <<positionsRef, openOrdersRef, allOpenOrdersRef, lastOrderTimeRef, lastFillTimeRef, marketStatsRef, state, stateRef, now, sessionVars>>
    /\ UNCHANGED <<applied, gUnreal, seenOpen, terminated, lastEvent, lastUnrealEvt, published>>

\* The updater fetchInitialPositions hands to setState: the fetched positions
\* and the total computed when the fetch resolved
positionsUpdater(prev, positions, totalUnrealized) == [prev EXCEPT !.positions = positions, !.unrealizedPnL = totalUnrealized]

\* The updater fetchInitialOrders hands to setState: the refs are read when
\* React runs it
ordersUpdater(prev) == [prev EXCEPT !.openOrders = openOrdersRef, !.allOpenOrders = publishedAllOpenOrders(allOpenOrdersRef)]

\* one queued updater applied to the state before it
applyUpdater(prev, u) ==
    CASE u.kind = "flush" -> flushUpdater(prev, u.pending)
      [] u.kind = "positions" -> positionsUpdater(prev, u.positions, u.totalUnrealized)
      [] u.kind = "orders" -> ordersUpdater(prev)

RECURSIVE RunUpdaters(_, _)
RunUpdaters(prev, queue) == IF queue = <<>> THEN prev ELSE RunUpdaters(applyUpdater(prev, Head(queue)), Tail(queue))

\* history: the batch a render publishes last, if it publishes one
RECURSIVE LastFlushed(_, _)
LastFlushed(queue, before) == IF queue = <<>> THEN before ELSE LET u == queue[Len(queue)] IN IF u.kind = "flush" THEN [applied |-> u.applied, evt |-> u.evt] ELSE LastFlushed(SubSeq(queue, 1, Len(queue) - 1), before)

\* React renders: the queued updaters run in order, the result is committed
\* and the effect of the commit sets stateRef.current = state
Render ==
    /\ updateQueue # <<>>
    /\ state' = RunUpdaters(state, updateQueue)
    /\ stateRef' = state'
    /\ updateQueue' = <<>>
    /\ published' = LastFlushed(updateQueue, published)
    /\ UNCHANGED <<positionsRef, openOrdersRef, allOpenOrdersRef, lastOrderTimeRef, lastFillTimeRef, marketStatsRef, pendingUpdatesRef, updateScheduledRef, timers, now, sessionVars>>
    /\ UNCHANGED <<applied, gUnreal, seenOpen, terminated, lastEvent, lastUnrealEvt, batchEvents, lastFlush>>

Next == HandleFill \/ HandleOrder \/ HandlePosition \/ HandleAccount \/ FlushUpdates \/ Render

Spec == Init /\ [][Next]_vars

\* ------------------------------------------------------------------ session
AuthFrame(token) == [id |-> 0, method |-> "auth", param |-> token]
SubscribeFrames == << [id |-> 1, method |-> "subscribe", param |-> "account"], [id |-> 2, method |-> "subscribe", param |-> "positions"], [id |-> 3, method |-> "subscribe", param |-> "balance_events"], [id |-> 4, method |-> "subscribe", param |-> "fills.ALL"], [id |-> 5, method |-> "subscribe", param |-> "orders.ALL"] >>

isActive(socks, ref) == ref # 0 /\ socks[ref].readyState \in {"OPEN", "CONNECTING"}
isOpen(socks, ref) == ref # 0 /\ socks[ref].readyState = "OPEN"

\* ws.close(): an open or connecting socket starts closing
closeSocket(socks, s) == IF socks[s].readyState \in {"OPEN", "CONNECTING"} THEN [socks EXCEPT ![s].readyState = "CLOSING"] ELSE socks

\* variant: the cleanup drops the reference without closing the socket
socketsAfterCleanup_NotClosed == sockets

\* the cleanup of the connect effect: ws.close(); wsRef.current = null
socketsAfterCleanup == IF cleanupSocket # 0 THEN closeSocket(sockets, cleanupSocket) ELSE sockets
wsRefAfterCleanup == IF cleanupSocket # 0 THEN 0 ELSE wsRef

\* the re-authenticate effect: send auth on wsRef.current when it is open
socketsAfterReauth(socks, ref, token) == IF token # NoToken /\ isOpen(socks, ref) THEN [socks EXCEPT ![ref].sent = Append(@, AuthFrame(token)), ![ref].awaiting = @ + 1] ELSE socks

\* the connect effect: whether it goes on to `new WebSocket(WS_URL)`
connects(socks, ref, token) == ~isActive(socks, ref) /\ token # NoToken

NewSocket(token) == [readyState |-> "CONNECTING", token |-> token, sent |-> <<>>, awaiting |-> 0]

\* variant: a new connection starts from empty stores
connectEffectStores_Reset ==
    /\ marketStatsRef' = EmptyMap
    /\ pendingUpdatesRef' = createEmptyPendingUpdates
    /\ UNCHANGED <<positionsRef, openOrdersRef, allOpenOrdersRef, lastOrderTimeRef, lastFillTimeRef>>

\* the stores across the cleanup and the two effects: none of them writes a
\* store ref or the pending batch
connectEffectStores == UNCHANGED <<positionsRef, openOrdersRef, allOpenOrdersRef, lastOrderTimeRef, lastFillTimeRef, marketStatsRef, pendingUpdatesRef>>

\* The jwtToken prop changes: React runs the cleanup of the connect effect
\* (its dependency changed), then the re-authenticate effect, then the
\* connect effect.
SetToken ==
    \E token \in Tokens \cup {NoToken} :
        /\ token # jwtToken
        /\ tokenChanges < MaxTokenChanges
        /\ tokenChanges' = tokenChanges + 1
        /\ jwtToken' = token
        /\ jwtTokenRef' = token
        /\ LET s1 == socketsAfterCleanup
               r1 == wsRefAfterCleanup
               s2 == socketsAfterReauth(s1, r1, token)
           IN IF connects(s2, r1, token)
              THEN /\ sockets' = Append(s2, NewSocket(token))
                   /\ wsRef' = Len(s2) + 1
                   /\ cleanupSocket' = Len(s2) + 1
              ELSE /\ sockets' = s2
                   /\ wsRef' = r1
                   /\ cleanupSocket' = 0
        /\ connectEffectStores
        /\ UNCHANGED <<isConnected, fetches, lastFrame, updateScheduledRef, timers, state, stateRef, updateQueue, now, historyVars>>

\* ws.onopen: the auth frame carries the token of the effect's closure
WsOpen ==
    \E s \in DOMAIN sockets :
        /\ sockets[s].readyState = "CONNECTING"
        /\ sockets' = [sockets EXCEPT ![s].readyState = "OPEN", ![s].sent = Append(@, AuthFrame(sockets[s].token)), ![s].awaiting = @ + 1]
        /\ UNCHANGED <<jwtToken, jwtTokenRef, wsRef, cleanupSocket, isConnected, fetches, tokenChanges, lastFrame, engineVars, historyVars>>

\* variant: subscribe() leaves out the balance_events channel
socketsAfterSubscribe_NoBalance == IF isOpen(sockets, wsRef) THEN [sockets EXCEPT ![wsRef].sent = @ \o <<SubscribeFrames[1], SubscribeFrames[2], SubscribeFrames[4], SubscribeFrames[5]>>] ELSE sockets

\* subscribe(): five sendMessage calls, each sent if wsRef.current is open
socketsAfterSubscribe == IF isOpen(sockets, wsRef) THEN [sockets EXCEPT ![wsRef].sent = @ \o SubscribeFrames] ELSE sockets

\* fetchInitialPositions(jwtToken) and fetchInitialOrders(jwtToken) started
\* (sentBefore: the number of frames the session had sent when fetch() was called)
NewFetch(kind, token, sentBefore) == [kind |-> kind, token |-> token, pending |-> TRUE, failed |-> FALSE, live |-> {}, sentBefore |-> sentBefore]


\* the frame recorded as delivered to the onmessage of socket s
FrameSeen(kind, s) == [n |-> lastFrame.n + 1, kind |-> kind, prev |-> lastFrame.kind, sock |-> s]

\* variant: an auth error closes the socket
socketsAfterAuthError_Closing(s) == [closeSocket(sockets, s) EXCEPT ![s].awaiting = @ - 1]

\* the auth reply carries an error: console.error and return
socketsAfterAuthError(s) == [sockets EXCEPT ![s].awaiting = @ - 1]

\* ws.onmessage with the reply to an auth frame (id 0)
AuthReply ==
    \E s \in DOMAIN sockets, ok \in BOOLEAN :
        /\ sockets[s].readyState = "OPEN"
        /\ sockets[s].awaiting > 0
        /\ IF ok
           THEN /\ isConnected' = TRUE
                /\ sockets' = [socketsAfterSubscribe EXCEPT ![s].awaiting = @ - 1]
                /\ fetches' = fetches \o << NewFetch("positions", sockets[s].token, Len(socketsAfterSubscribe[s].sent)), NewFetch("orders", sockets[s].token, Len(socketsAfterSubscribe[s].sent)) >>
           ELSE /\ sockets' = socketsAfterAuthError(s)
                /\ UNCHANGED <<isConnected, fetches>>
        /\ lastFrame' = FrameSeen(IF ok THEN "auth_ok" ELSE "auth_error", s)
        /\ UNCHANGED <<jwtToken, jwtTokenRef, wsRef, cleanupSocket, tokenChanges, engineVars, historyVars>>

\* ws.onclose: the transport closed (by the server, the network or ws.close())
WsClose ==
    \E s \in DOMAIN sockets :
        /\ sockets[s].readyState # "CLOSED"
        /\ sockets' = [sockets EXCEPT ![s].readyState = "CLOSED"]
        /\ isConnected' = FALSE
        /\ UNCHANGED <<jwtToken, jwtTokenRef, wsRef, cleanupSocket, fetches, tokenChanges, lastFrame, engineVars, historyVars>>

SessionNext == SetToken \/ WsOpen \/ AuthReply \/ WsClose

SessionSpec == Init /\ [][SessionNext]_vars

\* ------------------------------------------------------------ live session
\* Frames delivered to ws.onmessage besides the auth replies: text that is not
\* JSON, and subscription pushes {method: 'subscription', params: {channel,
\* data}} on the channels subscribed, on balance_events and on a channel the
\* program does not know.
InvalidFrame == [kind |-> "invalid", channel |-> "", data |-> <<>>]
Push(channel, data) == [kind |-> "subscription", channel |-> channel, data |-> data]
LivePosition(size, upnl) == [market |-> "m1", side |-> "LONG", status |-> "OPEN", size |-> <<size>>, unrealized_pnl |-> <<upnl>>]
LiveAccount == [equity |-> <<10>>, account_value |-> Undefined, unrealized_pnl |-> <<4>>]
LiveFrames ==
    { InvalidFrame, Push("unknown.channel", <<>>), Push("balance_events", <<>>),
      Push("fills.ALL", CHOOSE f \in FillInputs : f.id = "f1"),
      Push("orders.ALL", OrderUpdate("o2", "OPEN")), Push("orders.ALL", OrderUpdate("o2", "CANCELED")),
      Push("positions", LivePosition(1, 5)), Push("positions", LivePosition(0, 0)),
      Push("account", LiveAccount) }

\* processSubscriptionData: the handler a channel is dispatched to
handlerOf(channel) ==
    CASE channel = "account" -> "handleAccount"
      [] channel = "positions" -> "handlePosition"
      [] channel = "balance_events" -> "handleBalanceEvent"
      [] channel \in {"fills", "fills.ALL"} -> "handleFill"
      [] channel \in {"orders", "orders.ALL"} -> "handleOrder"
      [] OTHER -> "none"

\* what ws.onmessage does with a frame: JSON.parse throws on text that is not
\* JSON and the catch logs it
frameHandler(frame) == IF frame.kind = "invalid" THEN "none" ELSE handlerOf(frame.channel)
frameKind(frame) == IF frame.kind = "invalid" THEN "invalid" ELSE frame.channel

\* variant: a balance event arms the flush timer
handleBalanceEvent_Scheduling(balance) == scheduleUpdate /\ UNCHANGED <<positionsRef, openOrdersRef, allOpenOrdersRef, lastOrderTimeRef, lastFillTimeRef, marketStatsRef, pendingUpdatesRef>>

\* handleBalanceEvent: logs only
handleBalanceEvent(balance) == UNCHANGED <<positionsRef, openOrdersRef, allOpenOrdersRef, lastOrderTimeRef, lastFillTimeRef, marketStatsRef, pendingUpdatesRef, updateScheduledRef, timers>>

\* the server pushes on a socket once it has received the subscriptions
subscribed(s) == \E i \in DOMAIN sockets[s].sent : sockets[s].sent[i].method = "subscribe"

\* history: a live delta of `kind` for market m reaches every fetch in flight
liveDelta(kind, m) == [i \in DOMAIN fetches |-> IF fetches[i].pending /\ fetches[i].kind = kind THEN [fetches[i] EXCEPT !.live = @ \cup {m}] ELSE fetches[i]]

\* ws.onmessage with a frame that is not an auth reply
OnMessage ==
    \E s \in DOMAIN sockets, frame \in LiveFrames :
        /\ sockets[s].readyState = "OPEN"
        /\ frame.kind = "subscription" => subscribed(s)
        /\ now <= MaxEvents
        /\ now' = now + 1
        /\ lastFrame' = FrameSeen(frameKind(frame), s)
        /\ CASE frameHandler(frame) = "handleFill" -> handleFill(frame.data) /\ ObserveFill(frame.data) /\ fetches' = fetches
             [] frameHandler(frame) = "handleOrder" -> handleOrder(frame.data) /\ ObserveOrder(frame.data) /\ fetches' = liveDelta("orders", frame.data.market)
             [] frameHandler(frame) = "handlePosition" -> handlePosition(frame.data) /\ ObservePosition(frame.data) /\ fetches' = liveDelta("positions", frame.data.market)
             [] frameHandler(frame) = "handleAccount" -> handleAccount(frame.data) /\ ObserveAccount(frame.data) /\ fetches' = fetches
             [] frameHandler(frame) = "handleBalanceEvent" -> handleBalanceEvent(frame.data) /\ UNCHANGED <<fetches, historyVars>>
             [] OTHER -> UNCHANGED <<positionsRef, openOrdersRef, allOpenOrdersRef, lastOrderTimeRef, lastFillTimeRef, marketStatsRef, pendingUpdatesRef, updateScheduledRef, timers, fetches, historyVars>>
        /\ UNCHANGED <<state, stateRef, updateQueue, jwtToken, jwtTokenRef, wsRef, sockets, cleanupSocket, isConnected, tokenChanges>>

\* What GET /positions and GET /orders?status=OPEN answer: the server's data
\* at some moment of the flight.
BootPosition(id, m, status) == [id |-> id, market |-> m, side |-> "LONG", status |-> status, size |-> <<1>>, unrealized_pnl |-> <<5>>]
BootPositionResults == { <<>>, << BootPosition("p1", "m1", "OPEN"), BootPosition("p2", "m2", "CLOSED") >> }
BootOrderResults == { <<>>, << OrderUpdate("o2", "OPEN") >>, << OrderUpdate("o1", "OPEN"), OrderUpdate("o2", "OPEN") >> }

\* (data.results || []).filter(p => p.status === 'OPEN')
RECURSIVE openOnly(_)
openOnly(results) == IF results = <<>> THEN <<>> ELSE (IF Head(results).status = "OPEN" THEN <<Head(results)>> ELSE <<>>) \o openOnly(Tail(results))

\* positions.forEach(pos => positionsRef.current.set(pos.market, wsPos))
RECURSIVE positionsAfterBootstrap(_, _)
positionsAfterBootstrap(ref, positions) == IF positions = <<>> THEN ref ELSE LET pos == Head(positions) IN positionsAfterBootstrap(MapSet(ref, pos.market, [market |-> pos.market, side |-> pos.side, status |-> pos.status, size |-> pos.size, unrealized_pnl |-> pos.unrealized_pnl]), Tail(positions))

\* the fetched array as the published positions (one entry per market)
RECURSIVE bootPositions(_)
bootPositions(positions) == IF positions = <<>> THEN EmptyMap ELSE MapSet(bootPositions(SubSeq(positions, 1, Len(positions) - 1)), positions[Len(positions)].market, positions[Len(positions)])

\* orders.forEach: the pointer takes the order when the market has none or an
\* older one
RECURSIVE openOrdersAfterBootstrap(_, _)
openOrdersAfterBootstrap(ref, orders) == IF orders = <<>> THEN ref ELSE LET order == Head(orders) IN openOrdersAfterBootstrap(IF ~MapHas(ref, order.market) \/ order.created_at > ref[order.market].created_at THEN MapSet(ref, order.market, order) ELSE ref, Tail(orders))

RECURSIVE allOpenAfterBootstrap(_, _)
allOpenAfterBootstrap(ref, orders) == IF orders = <<>> THEN ref ELSE LET order == Head(orders) IN allOpenAfterBootstrap(MapSet(ref, order.market, MapSet(IF MapHas(ref, order.market) THEN ref[order.market] ELSE EmptyMap, order.id, order)), Tail(orders))

\* fetchInitialPositions after `await response.json()`
resolvePositions(results) ==
    LET positions == openOnly(results)
        ref == positionsAfterBootstrap(positionsRef, positions)
    IN /\ positionsRef' = ref
       /\ updateQueue' = Append(updateQueue, [kind |-> "positions", positions |-> bootPositions(positions), totalUnrealized |-> totalUnrealizedOf(ref)])
       /\ UNCHANGED <<openOrdersRef, allOpenOrdersRef>>

\* fetchInitialOrders after `await response.json()`
resolveOrders(orders) ==
    /\ openOrdersRef' = openOrdersAfterBootstrap(openOrdersRef, orders)
    /\ allOpenOrdersRef' = allOpenAfterBootstrap(allOpenOrdersRef, orders)
    /\ updateQueue' = Append(updateQueue, [kind |-> "orders"])
    /\ UNCHANGED positionsRef

\* variant: a failed fetch empties the store it was to seed
resolveFailure_Clears(kind) ==
    /\ positionsRef' = IF kind = "positions" THEN EmptyMap ELSE positionsRef
    /\ openOrdersRef' = IF kind = "orders" THEN EmptyMap ELSE openOrdersRef
    /\ allOpenOrdersRef' = IF kind = "orders" THEN EmptyMap ELSE allOpenOrdersRef
    /\ UNCHANGED updateQueue

\* the throw on !response.ok (or the rejected fetch) lands in the catch, which
\* logs and returns
resolveFailure(kind) == UNCHANGED <<positionsRef, openOrdersRef, allOpenOrdersRef, updateQueue>>

\* A bootstrap fetch settles: with a response that is not ok (or a network
\* error), which the catch logs, or with the server's list.
ResolveFetch ==
    \E i \in DOMAIN fetches, ok \in BOOLEAN :
        /\ fetches[i].pending
        /\ fetches' = [fetches EXCEPT ![i].pending = FALSE, ![i].failed = ~ok]
        /\ IF ~ok
           THEN resolveFailure(fetches[i].kind)
           ELSE IF fetches[i].kind = "positions"
                THEN \E results \in BootPositionResults : resolvePositions(results)
                ELSE \E results \in BootOrderResults : resolveOrders(results)
        /\ UNCHANGED <<lastOrderTimeRef, lastFillTimeRef, marketStatsRef, pendingUpdatesRef, updateScheduledRef, timers, state, stateRef, now>>
        /\ UNCHANGED <<jwtToken, jwtTokenRef, wsRef, sockets, cleanupSocket, isConnected, tokenChanges, lastFrame, historyVars>>

\* The live specification: the session, the frames of its sockets, the flush
\* timer and React's render. Two frames are delivered and the token changes
\* twice in one behaviour; the bootstrap fetches stay in flight.
LiveInit == EngineRefsInit /\ now = MaxEvents - 1 /\ SessionRefsInit /\ tokenChanges = MaxTokenChanges - 2 /\ HistoryInit
LiveNext == SetToken \/ WsOpen \/ AuthReply \/ WsClose \/ OnMessage \/ FlushUpdates \/ Render
LiveSpec == LiveInit /\ [][LiveNext]_vars

\* The bootstrap specification: one session whose socket stays open, its
\* frames, its two bootstrap fetches, the flush timer and React's render.
BootInit == EngineRefsInit /\ now = MaxEvents - 1 /\ SessionRefsInit /\ tokenChanges = MaxTokenChanges - 1 /\ HistoryInit
BootNext == SetToken \/ WsOpen \/ AuthReply \/ OnMessage \/ ResolveFetch \/ FlushUpdates \/ Render
BootSpec == BootInit /\ [][BootNext]_vars

\* The fair specification: an armed timer fires (the event loop runs due
\* timers) and React renders what is queued. Its clock starts one message
\* before the last, so that two messages are delivered: the liveness check
\* visits the whole state graph once per property.
FairInit == EngineRefsInit /\ now = MaxEvents - 1 /\ SessionInit /\ HistoryInit
FairSpec == FairInit /\ [][Next]_vars /\ WF_vars(FlushUpdates) /\ WF_vars(Render)

\* ------------------------------------------------- views of the published state
\* App: const totalPnL = state.realizedPnL - state.totalFees + state.unrealizedPnL
totalPnL(st) == st.realizedPnL - st.totalFees + st.unrealizedPnL

\* state.marketStats as the consumer reads it: the published Map holds the
\* engine's own MarketStats objects
PublishedMarketStats == [m \in state.marketStats |-> marketStatsRef[m]]

\* PositionsTable.getExitOrder: <<>> for undefined, <<order>> otherwise
getExitOrder(openOrders, position) ==
    IF ~MapHas(openOrders, position.market) THEN <<>>
    ELSE LET order == openOrders[position.market]
             isExitOrder == (position.side = "LONG" /\ order.side = "SELL") \/ (position.side = "SHORT" /\ order.side = "BUY")
         IN IF isExitOrder THEN <<order>> ELSE <<>>

\* ordersCreated as the engine holds it: published, queued and pending
RECURSIVE QueuedOrders(_)
QueuedOrders(queue) == IF queue = <<>> THEN 0 ELSE (IF Head(queue).kind = "flush" THEN Head(queue).pending.newOrdersCount ELSE 0) + QueuedOrders(Tail(queue))
EngineOrdersCreated == state.ordersCreated + QueuedOrders(updateQueue) + pendingUpdatesRef.newOrdersCount

OrderCountOf(m) == IF MapHas(marketStatsRef, m) THEN marketStatsRef[m].orderCount ELSE 0

\* ---------------------------------------------------------------------- C1
\* C1: after any sequence of order updates, a market's orderCount equals the
\* number of distinct order ids seen in NEW/OPEN status on that market, and
\* ordersCreated the number of distinct ids over all markets (a duplicate
\* delivery of the same open order counts once).
C1_OrderCountIsDistinctIds ==
    /\ \A m \in Markets : OrderCountOf(m) = Cardinality(seenOpen[m])
    /\ EngineOrdersCreated = SumOver(Markets, [m \in Markets |-> Cardinality(seenOpen[m])])

\* ---------------------------------------------------------------------- C2
\* C2: a change of the bearer token while the socket is open and authenticated
\* keeps the socket (none closed, none created), sends no subscribe frame and
\* sends one auth frame with the new token on the existing socket.
C2_TokenRefreshKeepsTransport ==
    [][ (jwtToken' # jwtToken /\ jwtToken' # NoToken /\ isOpen(sockets, wsRef) /\ isConnected)
        => /\ wsRef' = wsRef
           /\ Len(sockets') = Len(sockets)
           /\ sockets'[wsRef].readyState = "OPEN"
           /\ sockets'[wsRef].sent = Append(sockets[wsRef].sent, AuthFrame(jwtToken')) ]_vars

C4_OnePublishPerBatch ==
    /\ lastFlush.events >= 1 => lastFlush.setStates = 1
    /\ state.totalVolume = published.applied.volume
    /\ state.ordersCreated = published.applied.orders
    /\ Len(state.recentFills) = IF published.applied.fills > MaxRecentFills THEN MaxRecentFills ELSE published.applied.fills

C4_Witness == lastFlush.events = 3 /\ lastFlush.setStates = 1 /\ updateQueue = <<>> /\ published.applied.events = 3 /\ state.ordersCreated = 1 /\ Len(state.recentFills) = 1 /\ DOMAIN state.positions # {}

C6_PublishedStatsImmutable == [][state' = state => PublishedMarketStats' = PublishedMarketStats]_vars

OppositeSide(position) == IF position.side = "LONG" THEN "SELL" ELSE "BUY"
PublishedOpenOrdersOf(m) == IF MapHas(state.allOpenOrders, m) THEN state.allOpenOrders[m] ELSE {}

\* C8: for a published position on m, getExitOrder returns an order whenever
\* an order on the opposite side is open on m, returns none when no such order
\* is open, and what it returns is on the opposite side.
C8_ExitOrderDetected ==
    \A m \in DOMAIN state.positions :
        LET position == state.positions[m]
            exit == getExitOrder(state.openOrders, position)
            hasOpposite == \E o \in PublishedOpenOrdersOf(m) : o.side = OppositeSide(position)
        IN /\ hasOpposite => exit # <<>>
           /\ ~hasOpposite => exit = <<>>
           /\ exit # <<>> => exit[1].side = OppositeSide(position)

\* ---------------------------------------------------------------------- C9
\* C9: when the latest position or account event published is a position
\* snapshot closing m (size zero or status CLOSED), m is not among the
\* published positions, the published unrealizedPnL is the sum of
\* unrealized_pnl over the published positions, and m's MarketStats, if any,
\* has unrealizedPnL 0.
C9_PositionClosure ==
    (published.evt.kind = "position" /\ published.evt.status = "close" /\ lastUnrealEvt = published.evt)
    => LET m == published.evt.market
       IN /\ m \notin DOMAIN state.positions
          /\ state.unrealizedPnL = SumOver(DOMAIN state.positions, [k \in DOMAIN state.positions |-> ParseFloatOr0(state.positions[k].unrealized_pnl)])
          /\ m \in state.marketStats => marketStatsRef[m].unrealizedPnL = 0

C9_Witness == published.evt.kind = "position" /\ published.evt.status = "close" /\ lastUnrealEvt = published.evt /\ published.evt.market = "m1" /\ DOMAIN state.positions = {"m2"} /\ state.unrealizedPnL = 5 /\ "m1" \in state.marketStats /\ published.evt.seq = 3

\* --------------------------------------------------------------------- C10
InOpenSet(allOpen, m, id) == MapHas(allOpen, m) /\ MapHas(allOpen[m], id)

\* C10: an open order on a market with no earlier open order makes the
\* market's orderCount 1 and enters the open-order set; a terminal update
\* (CLOSED, CANCELED, REJECTED) removes the order from the open-order set and
\* from the most-recent pointer if it was the pointer, and changes neither
\* orderCount nor ordersCreated.
C10_OrderTerminalization ==
    [][ (lastEvent'.seq # lastEvent.seq /\ lastEvent'.kind = "order")
        => LET m == lastEvent'.market
               id == lastEvent'.id
           IN /\ (lastEvent'.status \in {"NEW", "OPEN"} /\ seenOpen[m] = {})
                   => (marketStatsRef'[m].orderCount = 1 /\ InOpenSet(allOpenOrdersRef', m, id))
              /\ lastEvent'.status \in {"CLOSED", "CANCELED", "REJECTED"}
                   => /\ ~InOpenSet(allOpenOrdersRef', m, id)
                      /\ ~(MapHas(openOrdersRef', m) /\ openOrdersRef'[m].id = id)
                      /\ (MapHas(openOrdersRef, m) /\ openOrdersRef[m].id # id) => openOrdersRef' = openOrdersRef
                      /\ marketStatsRef' = marketStatsRef
                      /\ EngineOrdersCreated' = EngineOrdersCreated ]_vars

C10_Witness == lastEvent.kind = "order" /\ lastEvent.status = "CANCELED" /\ lastEvent.id = "o1" /\ seenOpen["m1"] = {"o1"} /\ OrderCountOf("m1") = 1 /\ ~MapHas(allOpenOrdersRef, "m1") /\ ~MapHas(openOrdersRef, "m1") /\ EngineOrdersCreated = 1

\* --------------------------------------------------------------------- C11
IsSortedByTime(seq) == \A i \in 1..Len(seq) : \A j \in i..Len(seq) : seq[i].time <= seq[j].time
IsRanked(seq) == \A i \in 1..Len(seq) : seq[i].value = i

\* C11: the published ordersHistory is sorted by non-decreasing time and the
\* point at (0-based) index i has value i + 1, whatever the order in which the
\* order-creation events arrived, in one batch or across batches.
C11_OrdersHistorySortedRanked == IsSortedByTime(state.ordersHistory) /\ IsRanked(state.ordersHistory)

\* the order created at time 1 was delivered last, after the one created at 3
C11_Witness == Len(state.ordersHistory) >= 2 /\ state.ordersHistory[1].time = 1 /\ state.ordersHistory[2].time = 3 /\ lastEvent.kind = "order" /\ lastEvent.id = "o2" /\ lastEvent.status = "OPEN" /\ published.applied.events = applied.events /\ applied.orders = 2

\* --------------------------------------------------------------------- C12
FillOf(id) == CHOOSE f \in FillInputs : f.id = id
FillValue(s) == IF s = Undefined THEN 0 ELSE s[1]
StatBefore(m, field) == IF MapHas(marketStatsRef, m) THEN marketStatsRef[m][field] ELSE 0
AllPublished == published.applied.events = applied.events

\* C12: a fill adds price*size, realized_pnl and fee to its market's volume,
\* realizedPnL and fees and 1 to its fillCount; once it is published the
\* global totalVolume, realizedPnL and totalFees are the sums over the fills
\* delivered and the fill is at the front of recentFills; a position snapshot
\* that is then the only open position makes the published unrealizedPnL its
\* unrealized_pnl.
C12_FillApplied ==
    [][ /\ (lastEvent'.kind = "fill" /\ lastEvent'.seq # lastEvent.seq)
           => LET f == FillOf(lastEvent'.id)
                  m == f.market
              IN /\ marketStatsRef'[m].volume = StatBefore(m, "volume") + f.price[1] * f.size[1]
                 /\ marketStatsRef'[m].realizedPnL = StatBefore(m, "realizedPnL") + FillValue(f.realized_pnl)
                 /\ marketStatsRef'[m].fees = StatBefore(m, "fees") + FillValue(f.fee)
                 /\ marketStatsRef'[m].fillCount = StatBefore(m, "fillCount") + 1
        /\ AllPublished'
           => /\ state'.totalVolume = applied'.volume
              /\ state'.realizedPnL = applied'.realized
              /\ state'.totalFees = applied'.fees
              /\ lastEvent'.kind = "fill" => (state'.recentFills # <<>> /\ Head(state'.recentFills).id = lastEvent'.id)
              /\ (lastEvent'.kind = "position" /\ lastEvent'.status = "open" /\ applied'.positions = {lastEvent'.market})
                    => state'.unrealizedPnL = gUnreal'[lastEvent'.market] ]_vars

\* fill f1 on m1, then a LONG snapshot on m1 with unrealized_pnl 5, published
C12_Witness == AllPublished /\ applied.fills = 1 /\ lastEvent.kind = "position" /\ lastEvent.status = "open" /\ lastEvent.market = "m1" /\ applied.positions = {"m1"} /\ state.totalVolume = 6 /\ state.totalFees = 1 /\ state.realizedPnL = -1 /\ state.unrealizedPnL = 5 /\ Len(state.recentFills) = 1 /\ state.recentFills[1].id = "f1" /\ marketStatsRef["m1"].fillCount = 1

\* --------------------------------------------------------------------- C13
\* C13: the published equity is the value of the latest account snapshot with
\* a positive equity (or account_value when equity is missing or zero) among
\* those delivered up to the flush that published it, it keeps its value on a
\* publish without such a snapshot, and once positive it is never zero again.
C13_EquityKept ==
    [][ /\ state'.equity = published'.applied.equity
        /\ state.equity > 0 => state'.equity > 0 ]_vars

\* equity 10 was delivered, then a snapshot with unrealized_pnl only
C13_Witness == AllPublished /\ state.equity = 10 /\ lastEvent.kind = "account" /\ lastEvent.status = "unrealized" /\ state.unrealizedPnL = 0 /\ applied.events >= 2 /\ lastFlush.events = 1

\* --------------------------------------------------------------------- C14
\* the session was torn down (the cleanup of the connect effect ran) and no
\* new one was started
TornDown == Len(sockets) > 0 /\ jwtToken = NoToken

SessionStep ==
    \/ tokenChanges' # tokenChanges
    \/ \E s \in DOMAIN sockets : sockets'[s].readyState # sockets[s].readyState
    \/ (lastFrame'.n # lastFrame.n /\ lastFrame'.kind \in {"auth_ok", "auth_error"})

EngineStores == <<positionsRef, openOrdersRef, allOpenOrdersRef, lastOrderTimeRef, lastFillTimeRef, marketStatsRef, pendingUpdatesRef, state, stateRef, updateQueue>>

\* C15: a token change, a transport close and a reconnect leave the stores,
\* the pending batch and the published state as they are, and every later
\* published state continues from them: totalFees, totalVolume, ordersCreated,
\* the histories, recentFills and the per-market counters never fall back,
\* and the totals are those of every fill and order delivered since the
\* start, over all connections.
C15_NoResetOnReconnect ==
    [][ /\ SessionStep => UNCHANGED EngineStores
        /\ state'.totalFees >= state.totalFees
        /\ state'.totalVolume >= state.totalVolume
        /\ state'.ordersCreated >= state.ordersCreated
        /\ Len(state'.pnlHistory) >= Len(state.pnlHistory)
        /\ Len(state'.volumeHistory) >= Len(state.volumeHistory)
        /\ Len(state'.ordersHistory) >= Len(state.ordersHistory)
        /\ Len(state'.equityHistory) >= Len(state.equityHistory)
        /\ Len(state'.recentFills) >= Len(state.recentFills)
        /\ \A m \in DOMAIN marketStatsRef :
              /\ MapHas(marketStatsRef', m)
              /\ marketStatsRef'[m].fillCount >= marketStatsRef[m].fillCount
              /\ marketStatsRef'[m].orderCount >= marketStatsRef[m].orderCount
              /\ marketStatsRef'[m].volume >= marketStatsRef[m].volume
              /\ marketStatsRef'[m].fees >= marketStatsRef[m].fees
        /\ state.marketStats \subseteq state'.marketStats
        /\ AllPublished'
             => /\ state'.realizedPnL = applied'.realized
                /\ state'.totalFees = applied'.fees
                /\ state'.totalVolume = applied'.volume
                /\ state'.ordersCreated = applied'.orders ]_vars

\* a fill on the first socket, a token change, a fill on the second socket,
\* both published
C15_Witness == Len(sockets) = 2 /\ sockets[1].readyState = "CLOSED" /\ lastFrame.sock = 2 /\ lastFrame.kind = "fills.ALL" /\ lastFrame.prev = "auth_ok" /\ applied.fills = 2 /\ AllPublished /\ state.totalVolume = 12 /\ state.totalFees = 2 /\ state.realizedPnL = -2 /\ Len(state.recentFills) = 2 /\ marketStatsRef["m1"].fillCount = 2

\* --------------------------------------------------------------------- C16
AuthErrorStep == lastFrame'.n # lastFrame.n /\ lastFrame'.kind = "auth_error"

\* C16: an auth reply with an error leaves every socket in its readyState,
\* sends nothing (no subscription), leaves isConnected as it is, starts no
\* bootstrap fetch and changes no store, pending batch, timer or state.
C16_AuthErrorInert ==
    [][ AuthErrorStep
        => /\ \A s \in DOMAIN sockets : sockets'[s].readyState = sockets[s].readyState /\ sockets'[s].sent = sockets[s].sent
           /\ Len(sockets') = Len(sockets)
           /\ isConnected' = isConnected
           /\ fetches' = fetches
           /\ UNCHANGED EngineStores
           /\ UNCHANGED <<updateScheduledRef, timers, wsRef>> ]_vars

\* the second connection's auth is refused while the stores hold the first
\* connection's fill and the pending batch is not empty
C16_Witness == lastFrame.kind = "auth_error" /\ lastFrame.sock = 2 /\ ~isConnected /\ fetches # <<>> /\ sockets[2].readyState = "OPEN" /\ sockets[2].sent = <<AuthFrame(sockets[2].token)>> /\ applied.fills = 1 /\ marketStatsRef["m1"].fillCount = 1 /\ pendingUpdatesRef.fills # <<>> /\ timers = 1

\* --------------------------------------------------------------------- C17
InertKinds == {"invalid", "unknown.channel", "balance_events"}

InertFrameStep == lastFrame'.n # lastFrame.n /\ lastFrame'.kind \in InertKinds

FillAfterInertStep == lastFrame'.n # lastFrame.n /\ lastFrame.kind \in InertKinds /\ lastFrame'.kind = "fills.ALL" /\ lastFrame'.sock = lastFrame.sock

\* C17: a frame that is not JSON, a push on an unknown channel and a
\* balance_events push change no store, no pending batch, no scheduler state
\* and no socket; the socket that received one is still OPEN, and a fill frame
\* that follows one on the same socket is applied to the stores and the batch.
C17_InertFrames ==
    [][ /\ InertFrameStep
           => /\ UNCHANGED EngineStores
              /\ UNCHANGED <<updateScheduledRef, timers, sockets, wsRef, isConnected, fetches>>
              /\ sockets'[lastFrame'.sock].readyState = "OPEN"
        /\ FillAfterInertStep
           => /\ Len(pendingUpdatesRef'.fills) = Len(pendingUpdatesRef.fills) + 1
              /\ marketStatsRef'["m1"].fillCount = StatBefore("m1", "fillCount") + 1
              /\ updateScheduledRef' ]_vars

\* a fill has been applied right after a balance_events push on the same socket
C17_Witness == lastFrame.kind = "fills.ALL" /\ lastFrame.prev = "balance_events" /\ applied.fills = 1 /\ Len(pendingUpdatesRef.fills) = 1 /\ timers = 1

\* --------------------------------------------------------------------- C18
FetchResolves(i) == fetches[i].pending /\ ~fetches'[i].pending
PositionAt(map, m) == IF MapHas(map, m) THEN <<map[m]>> ELSE <<>>
OrdersOf(map, m) == { id \in DOMAIN map : map[id].market = m }

\* C18: when a bootstrap fetch resolves, the position store (positions fetch)
\* or the open-order stores (orders fetch) are left as they are for every
\* market for which a live delta arrived while the fetch was in flight.
C18_BootstrapRespectsLive ==
    [][ \A i \in DOMAIN fetches : \A m \in fetches[i].live :
          FetchResolves(i)
          => IF fetches[i].kind = "positions"
             THEN PositionAt(positionsRef', m) = PositionAt(positionsRef, m)
             ELSE /\ PositionAt(openOrdersRef', m) = PositionAt(openOrdersRef, m)
                  /\ OrdersOf(allOpenOrdersRef', m) = OrdersOf(allOpenOrdersRef, m) ]_vars

\* --------------------------------------------------------------------- C19
\* the published counters are those of the events applied when the batch was taken
CountersAtPrefix ==
    /\ state.realizedPnL = published.applied.realized
    /\ state.totalFees = published.applied.fees
    /\ state.totalVolume = published.applied.volume
    /\ state.ordersCreated = published.applied.orders

\* the published positions are the positions open after the same events
PositionsAtPrefix == DOMAIN state.positions = published.applied.positions

\* the published per-market fill counts add up to the fills among the same events
MarketStatsAtPrefix == SumOver(state.marketStats, [m \in state.marketStats |-> marketStatsRef[m].fillCount]) = published.applied.fills

\* C19: the published counters, positions and marketStats all reflect the
\* events applied when the flush timer fired and no later event.
C19_PointInTimeSnapshot == CountersAtPrefix /\ PositionsAtPrefix /\ MarketStatsAtPrefix

\* --------------------------------------------------------------------- C20
Idle == ~updateScheduledRef /\ timers = 0 /\ pendingIsEmpty(pendingUpdatesRef)
Pending == updateScheduledRef /\ timers = 1
MutationStep == now' # now

PublishedStatSum(field) == SumOver(state.marketStats, [m \in state.marketStats |-> marketStatsRef[m][field]])

\* C21: in every published state the global totals are the sums of the
\* per-market stats: realizedPnL, fees, volume, orderCount and unrealizedPnL.
C21_TotalsAreSums ==
    /\ state.realizedPnL = PublishedStatSum("realizedPnL")
    /\ state.totalFees = PublishedStatSum("fees")
    /\ state.totalVolume = PublishedStatSum("volume")
    /\ state.ordersCreated = PublishedStatSum("orderCount")
    /\ state.unrealizedPnL = PublishedStatSum("unrealizedPnL")

\* --------------------------------------------------------------------- C22
OpenSomewhere(id) == \E m \in DOMAIN allOpenOrdersRef : MapHas(allOpenOrdersRef[m], id)
IsPointerOrder(id) == \E m \in DOMAIN openOrdersRef : openOrdersRef[m].id = id

\* C22: an order id that was delivered with a terminal status is never again
\* in the open-order set nor the most-recent-open-order pointer of a market.
C22_TerminalIsFinal == \A id \in terminated : ~OpenSomewhere(id) /\ ~IsPointerOrder(id)

\* --------------------------------------------------------------------- C23
ActiveSockets(socks) == { s \in DOMAIN socks : socks[s].readyState \in {"CONNECTING", "OPEN"} }
SocketCreated == Len(sockets') > Len(sockets)

\* C23: at most one WebSocket of the session is CONNECTING or OPEN, and a
\* step creates a socket only with a token present, one socket at a time, and
\* with no other socket CONNECTING or OPEN once it is created.
C23_SingleTransport ==
    /\ Cardinality(ActiveSockets(sockets)) <= 1
    /\ [][ /\ Cardinality(ActiveSockets(sockets')) <= 1
           /\ SocketCreated => /\ Len(sockets') = Len(sockets) + 1
                               /\ jwtToken' # NoToken
                               /\ ActiveSockets(sockets') = {Len(sockets')} ]_vars

\* the token was refreshed while the first socket was open: the first socket
\* is closing and the second is the only active one
C23_Witness == Len(sockets) = 2 /\ sockets[1].readyState = "CLOSING" /\ sockets[1].sent # <<>> /\ sockets[2].readyState = "CONNECTING" /\ sockets[2].token # sockets[1].token /\ wsRef = 2

\* --------------------------------------------------------------------- C24
OpenStep(s) == sockets[s].readyState = "CONNECTING" /\ sockets'[s].readyState = "OPEN"
AuthOkStep(s) == lastFrame'.n # lastFrame.n /\ lastFrame'.kind = "auth_ok" /\ lastFrame'.sock = s
FiveSubscribes == << [id |-> 1, method |-> "subscribe", param |-> "account"], [id |-> 2, method |-> "subscribe", param |-> "positions"], [id |-> 3, method |-> "subscribe", param |-> "balance_events"], [id |-> 4, method |-> "subscribe", param |-> "fills.ALL"], [id |-> 5, method |-> "subscribe", param |-> "orders.ALL"] >>

\* C24: a socket that opens sends one auth frame (id 0) and nothing else; a
\* successful auth reply sends the five subscribe frames 1..5 in order and then
\* starts one positions fetch and one orders fetch; no other step sends a frame
\* or starts a fetch.
C24_HandshakeFrames ==
    [][ \A s \in DOMAIN sockets :
          /\ OpenStep(s) => sockets[s].sent = <<>> /\ sockets'[s].sent = << [id |-> 0, method |-> "auth", param |-> sockets[s].token] >> /\ Len(fetches') = Len(fetches)
          /\ AuthOkStep(s)
             => /\ sockets'[s].sent = sockets[s].sent \o FiveSubscribes
                /\ Len(fetches') = Len(fetches) + 2
                /\ SubSeq(fetches', 1, Len(fetches)) = fetches
                /\ fetches'[Len(fetches) + 1].kind = "positions" /\ fetches'[Len(fetches) + 2].kind = "orders"
                /\ \A i \in {Len(fetches) + 1, Len(fetches) + 2} : fetches'[i].pending /\ fetches'[i].sentBefore = Len(sockets'[s].sent) /\ fetches'[i].token = sockets[s].token
          /\ (~OpenStep(s) /\ ~AuthOkStep(s)) => sockets'[s].sent = sockets[s].sent
          /\ (\A t \in DOMAIN sockets : ~AuthOkStep(t)) => Len(fetches') = Len(fetches) ]_vars

\* the second connection has sent its auth frame and five subscriptions and
\* four fetches have been started, two per successful auth
C24_Witness == Len(sockets) = 2 /\ Len(sockets[2].sent) = 6 /\ sockets[2].sent[1].id = 0 /\ sockets[2].sent[6].id = 5 /\ Len(sockets[1].sent) = 6 /\ Len(fetches) = 4 /\ lastFrame.kind = "auth_ok" /\ lastFrame.sock = 2

\* --------------------------------------------------------------------- C25
\* the points of one pending array over the flushes a render applies, in order
RECURSIVE QueuedPoints(_, _)
QueuedPoints(queue, field) == IF queue = <<>> THEN <<>> ELSE (IF Head(queue).kind = "flush" THEN Head(queue).pending[field] ELSE <<>>) \o QueuedPoints(Tail(queue), field)
LastN(seq, n) == IF Len(seq) > n THEN SubSeq(seq, Len(seq) - n + 1, Len(seq)) ELSE seq
TimesOf(seq) == [i \in 1..Len(seq) |-> seq[i].time]
RenderStep == updateQueue # <<>> /\ updateQueue' = <<>>

\* the value histories keep the last MAX_HISTORY_POINTS of old and new points
ValueHistoriesTrimmed ==
    /\ state'.pnlHistory = LastN(state.pnlHistory \o QueuedPoints(updateQueue, "pnlPoints"), MAX_HISTORY_POINTS)
    /\ state'.volumeHistory = LastN(state.volumeHistory \o QueuedPoints(updateQueue, "volumePoints"), MAX_HISTORY_POINTS)
    /\ state'.equityHistory = LastN(state.equityHistory \o QueuedPoints(updateQueue, "equityPoints"), MAX_HISTORY_POINTS)

\* ordersHistory keeps the MAX_HISTORY_POINTS latest times of old and new points
OrdersHistoryTrimmed == TimesOf(state'.ordersHistory) = LastN(TimesOf(SortByTime(state.ordersHistory \o QueuedPoints(updateQueue, "orderPoints"))), MAX_HISTORY_POINTS)

HistoriesBounded == \A h \in {"pnlHistory", "volumeHistory", "equityHistory", "ordersHistory"} : Len(state[h]) <= MAX_HISTORY_POINTS

\* C25: no published history holds more than MAX_HISTORY_POINTS points, and a
\* render keeps exactly the most recent MAX_HISTORY_POINTS of the points
\* published before and the points its batches add, in their order.
C25_HistoriesKeepMostRecent ==
    /\ HistoriesBounded
    /\ [][ HistoriesBounded' /\ (RenderStep => ValueHistoriesTrimmed /\ OrdersHistoryTrimmed) ]_vars

\* --------------------------------------------------------------------- C26
FetchFails(i) == fetches[i].pending /\ ~fetches'[i].pending /\ fetches'[i].failed
AfterFailure == \E i \in DOMAIN fetches : fetches[i].failed
LivePositionStep == lastFrame'.n # lastFrame.n /\ lastFrame'.kind = "positions"
LiveOrderStep == lastFrame'.n # lastFrame.n /\ lastFrame'.kind = "orders.ALL"

\* C26: a bootstrap fetch that fails changes no store, no pending batch, no
\* queued update, no published state, no socket and no other fetch; the other
\* fetch of the pair can still resolve, and a live position or order delivered
\* after the failure is applied to its store.
C26_FetchFailureInert ==
    [][ /\ \A i \in DOMAIN fetches :
             FetchFails(i)
             => /\ UNCHANGED EngineStores
                /\ UNCHANGED <<updateScheduledRef, timers, sockets, wsRef, isConnected>>
                /\ \A j \in DOMAIN fetches : j # i => fetches'[j] = fetches[j]
        /\ (AfterFailure /\ LivePositionStep)
           => (MapHas(positionsRef', lastEvent'.market) <=> lastEvent'.status = "open")
        /\ (AfterFailure /\ LiveOrderStep)
           => (OpenSomewhere(lastEvent.id) <=> lastEvent.status \in OpenStatuses)' ]_vars

\* the positions fetch failed with a position in the store; the orders fetch
\* of the same auth then resolved with its list, and a live order followed
C26_Witness == Len(fetches) = 2 /\ fetches[1].failed /\ ~fetches[2].pending /\ ~fetches[2].failed /\ MapHas(positionsRef, "m1") /\ OpenSomewhere("o2") /\ lastFrame.kind = "orders.ALL"

\* --------------------------------------------------------------------- C27
\* socket s has taken the success branch of the auth reply: subscribe() has
\* sent on it
Authenticated(s) == \E i \in DOMAIN sockets[s].sent : sockets[s].sent[i].method = "subscribe"
CurrentAuthenticated == wsRef # 0 /\ sockets[wsRef].readyState = "OPEN" /\ Authenticated(wsRef)

\* C27: isConnected is true exactly when the current socket is open and has
\* received a successful auth reply.
C27_ConnectedIffAuthenticated == isConnected <=> CurrentAuthenticated

\* --------------------------------------------------------------------- C28
AppendsPnLPoints == RenderStep /\ QueuedPoints(updateQueue, "pnlPoints") # <<>>
LastPoint(history) == history[Len(history)]
PublishedTotalPnL(st) == st.realizedPnL - st.totalFees + st.unrealizedPnL

\* C28: when a render publishes batches that append P&L points, the last
\* point of the published pnlHistory has the value realizedPnL - totalFees +
\* unrealizedPnL of the state published with it.
C28_LastPnLPointIsTotal == [][ AppendsPnLPoints => LastPoint(state'.pnlHistory).value = PublishedTotalPnL(state') ]_vars

\* --------------------------------------------------------------------- C29
PositionsUnrealized(positions) == SumOver(DOMAIN positions, [m \in DOMAIN positions |-> ParseFloatOr0(positions[m].unrealized_pnl)])
NoAccountOverride == ~applied.account

\* C29: with no account snapshot having set unrealized P&L, every state a
\* render publishes has unrealizedPnL equal to the sum of unrealized_pnl over
\* its positions, and its positions are the markets of the position store.
C29_UnrealizedMatchesPositions ==
    [][ (RenderStep /\ NoAccountOverride)
        => /\ state'.unrealizedPnL = PositionsUnrealized(state'.positions)
           /\ DOMAIN state'.positions = DOMAIN positionsRef' ]_vars

\* --------------------------------------------------------------------- C30
\* the pointer of every market names an order of that market's open set, and
\* no market has an empty open set
PointerInOpenSet(pointers, allOpen) == \A m \in DOMAIN pointers : MapHas(allOpen, m) /\ pointers[m].id \in { o.id : o \in allOpen[m] }
NoEmptyOpenSet(allOpen) == \A m \in DOMAIN allOpen : allOpen[m] # {}
Settled == timers = 0 /\ updateQueue = <<>> /\ pendingIsEmpty(pendingUpdatesRef)

\* C30: in the stores, and in the published state once every batch has been
\* flushed and rendered, each market's pointer, when present, is an order of
\* that market's open-order set, and no market has an empty open-order set.
C30_PointerInOpenSet ==
    /\ PointerInOpenSet(openOrdersRef, publishedAllOpenOrders(allOpenOrdersRef))
    /\ NoEmptyOpenSet(publishedAllOpenOrders(allOpenOrdersRef))
    /\ Settled => PointerInOpenSet(state.openOrders, state.allOpenOrders) /\ NoEmptyOpenSet(state.allOpenOrders)

\* the bootstrap merged o1 and o2 on m1, then o2 was cancelled live: the
\* pointer is still o1 and o1 is the open set, in the store and as published
C30_Witness == Settled /\ "o2" \in terminated /\ MapHas(openOrdersRef, "m1") /\ openOrdersRef["m1"].id = "o1" /\ DOMAIN allOpenOrdersRef["m1"] = {"o1"} /\ MapHas(state.openOrders, "m1") /\ state.openOrders["m1"].id = "o1" /\ \A i \in DOMAIN fetches : ~fetches[i].pending

====
